---- MODULE Spec2Model ----
\* Model of src/app.py: the Streamlit page that loads a Naver search JSON export,
\* detects its type, normalizes every item, embeds it and inserts it into the
\* Supabase table 'documents'.
EXTENDS Integers, Sequences, FiniteSets, TLC

VARIABLES
    pc,              \* position of the save-button handler / process_json_file
    data,            \* the value json.load returned (app.py:62)
    arg_type,        \* source_type chosen in the radio (app.py:185-192)
    arg_coll,        \* collection_name typed in the text input (app.py:195)
    source_type,     \* local source_type of process_json_file
    collection_name, \* local collection_name of process_json_file
    items,           \* the sequence the for loop enumerates (app.py:86)
    i,               \* number of items the loop has fetched
    doc_count,       \* local doc_count (app.py:83, 169)
    full_content,    \* full_content of the current item
    metadata,        \* metadata of the current item
    embedding,       \* embedding of the current item
    store,           \* rows of the Supabase table 'documents' inserted by this run
    calls,           \* history of the calls made to the two collaborators
    detect_calls,    \* number of calls of detect_naver_api_type
    branches,        \* history of the normalization branch taken per item
    failed,          \* which collaborator call raised, if any
    ui,              \* what the page shows after the click
    tmp_file,        \* whether the temporary file still exists
    cl_text, cl_once, cl_twice, cl_pc,   \* clean_html_tags applied to a text, twice
    dt_data, dt_out, dt_pc               \* detect_naver_api_type applied to a value

mainVars == <<pc, data, arg_type, arg_coll, source_type, collection_name, items, i,
              doc_count, full_content, metadata, embedding, store, calls,
              detect_calls, branches, failed, ui, tmp_file>>
cleanVars == <<cl_text, cl_once, cl_twice, cl_pc>>
detectVars == <<dt_data, dt_out, dt_pc>>
vars == <<mainVars, cleanVars, detectVars>>

-----------------------------------------------------------------------------
\* Bounds of the model.

\* Longest item list of a batch.
MaxItems == 3
\* Longest text given to clean_html_tags in SpecClean.
MaxLen == 5
\* Most keys of a top-level mapping that has no 'items' key.
MaxKeys == 2

-----------------------------------------------------------------------------
\* JSON values held in item fields.  A text is a sequence of characters.
\* Every value has the same three fields so that values of different Python
\* types can be compared: t is the Python type, s the text, n the number (or
\* the length of a list).

Str(s) == [t |-> "str", s |-> s, n |-> 0]
Num(k) == [t |-> "num", s |-> <<>>, n |-> k]
List(k) == [t |-> "list", s |-> <<>>, n |-> k]
None == [t |-> "none", s |-> <<>>, n |-> 0]
\* Marks a key that the mapping does not hold.
Absent == [t |-> "absent", s |-> <<>>, n |-> 0]

\* Python truth value of a JSON value (used by 'if not text').
Truthy(v) ==
    CASE v.t = "str" -> v.s # <<>>
      [] v.t = "num" -> v.n # 0
      [] v.t = "list" -> v.n > 0
      [] OTHER -> FALSE

\* Keys of the items the program reads.
Fields == {"title", "description", "content", "category3", "link", "originallink",
           "postdate", "bloggername", "bloggerlink", "lprice", "maker", "brand",
           "mallName", "productId", "productType", "pubDate", "publisher",
           "articleId"}

\* A JSON mapping with the keys of record r; the other keys are absent.
Dict(r) == [isdict |-> TRUE,
            f |-> [k \in Fields |-> IF k \in DOMAIN r THEN r[k] ELSE Absent]]
\* The mapping {}.
EmptyDict == [isdict |-> TRUE, f |-> [k \in Fields |-> Absent]]
\* An element that is no mapping (a str: a key of a mapping, a character of a text).
NonDict == [isdict |-> FALSE, f |-> [k \in Fields |-> Absent]]

\* 'key in item'
Has(item, k) == item.f[k].t # "absent"
\* item.get(key, default)
Get(item, k, default) == IF Has(item, k) THEN item.f[k] ELSE default

-----------------------------------------------------------------------------
\* clean_html_tags (app.py:31-35)

\* First index j > p with s[j] = ">" and no newline in s[p+1..j-1]; 0 when the
\* lazy '.*?' of r'<.*?>' cannot reach a '>' ('.' does not match a newline).
RECURSIVE TagEnd(_, _)
TagEnd(s, j) ==
    IF j > Len(s) THEN 0
    ELSE IF s[j] = ">" THEN j
    ELSE IF s[j] = "\n" THEN 0
    ELSE TagEnd(s, j + 1)

\* A variant of the pattern in which a tag may not contain '<' (r'<[^<]*?>').
RECURSIVE TagEndNoNested(_, _)
TagEndNoNested(s, j) ==
    IF j > Len(s) THEN 0
    ELSE IF s[j] = ">" THEN j
    ELSE IF s[j] = "\n" \/ s[j] = "<" THEN 0
    ELSE TagEndNoNested(s, j + 1)

MatchEndNoNested(s, p) == TagEndNoNested(s, p + 1)

\* Where the match of r'<.*?>' that starts at the '<' at index p ends, 0 if none.
MatchEnd(s, p) == TagEnd(s, p + 1)

\* re.sub(r'<.*?>', '', s) from index p on: leftmost matches, not overlapping.
RECURSIVE re_sub(_, _)
re_sub(s, p) ==
    IF p > Len(s) THEN <<>>
    ELSE IF s[p] = "<" /\ MatchEnd(s, p) # 0 THEN re_sub(s, MatchEnd(s, p) + 1)
    ELSE <<s[p]>> \o re_sub(s, p + 1)

\* re.sub raises TypeError for a truthy value that is no str.
CleanRaises(text) == Truthy(text) /\ text.t # "str"

\* The text clean_html_tags returns (when it does not raise).
clean_html_tags(text) == IF ~Truthy(text) THEN <<>> ELSE re_sub(text.s, 1)

-----------------------------------------------------------------------------
\* detect_naver_api_type (app.py:37-56).  The source_type strings: "blog" is
\* the source's Korean word for blog, "shopping" for shopping, "news" for news.

\* The parsed top-level value: t is its Python type; for a mapping hasItems
\* says whether it has the key 'items' and items is data['items']; for a list
\* items is the list; n is the number of other keys of a mapping or the length
\* of a str.
DictWithItems(its) == [t |-> "dict", hasItems |-> TRUE, items |-> its, n |-> 0]
DictNoItems(k) == [t |-> "dict", hasItems |-> FALSE, items |-> <<>>, n |-> k]
Array(its) == [t |-> "list", hasItems |-> FALSE, items |-> its, n |-> 0]
Scalar(ty, k) == [t |-> ty, hasItems |-> FALSE, items |-> <<>>, n |-> k]

\* A variant that tries the shopping check before the blog check.
detect_shopping_first(d) ==
    IF d.t # "dict" \/ ~d.hasItems THEN "unknown"
    ELSE IF d.items = <<>> THEN "unknown"
    ELSE LET sample_item == d.items[1] IN
         IF Has(sample_item, "productType") \/ Has(sample_item, "maker")
            \/ Has(sample_item, "mallName") THEN "shopping"
         ELSE IF Has(sample_item, "bloggername") THEN "blog"
         ELSE IF Has(sample_item, "pubDate")
                 /\ (Has(sample_item, "articleId") \/ Has(sample_item, "originallink"))
              THEN "news"
         ELSE "unknown"

detect_naver_api_type(d) ==
    IF d.t # "dict" \/ ~d.hasItems THEN "unknown"
    ELSE IF d.items = <<>> THEN "unknown"
    ELSE LET sample_item == d.items[1] IN
         IF Has(sample_item, "bloggername") THEN "blog"
         ELSE IF Has(sample_item, "productType") \/ Has(sample_item, "maker")
                 \/ Has(sample_item, "mallName") THEN "shopping"
         ELSE IF Has(sample_item, "pubDate")
                 /\ (Has(sample_item, "articleId") \/ Has(sample_item, "originallink"))
              THEN "news"
         ELSE "unknown"

-----------------------------------------------------------------------------
\* Normalization of one item (app.py:87-156)

\* The value of 'not source_type' is true for None (no type given).
NoType == "None"

\* The branch of the if/elif chain (app.py:88, 103, 128, 142) a type selects.
Branch(st) == IF st \in {"blog", "shopping", "news"} THEN st ELSE "generic"

\* Keys a metadata mapping can hold.
MetaKeys == {"title", "collection", "collected_at", "url", "date", "bloggername",
             "bloggerlink", "price", "maker", "brand", "mallName", "productId",
             "productType", "publisher"}
Meta(r) == [k \in MetaKeys |-> IF k \in DOMAIN r THEN r[k] ELSE Absent]
NoMeta == [k \in MetaKeys |-> Absent]

\* datetime.now().isoformat(): the clock is not modelled, every reading is "now".
Now == Str(<<"now">>)
\* A source type or a label as a text value (kept as one element: it holds no markup).
Label(x) == Str(<<x>>)
Empty == Str(<<>>)

Digits == <<"0", "1", "2", "3", "4", "5", "6", "7", "8", "9">>
IsDigit(c) == \E k \in 1..10 : Digits[k] = c
DigitVal(c) == (CHOOSE k \in 1..10 : Digits[k] = c) - 1
RECURSIVE DecimalValue(_, _)
DecimalValue(s, acc) ==
    IF s = <<>> THEN acc ELSE DecimalValue(Tail(s), 10 * acc + DigitVal(Head(s)))

\* try: int(price) except (ValueError, TypeError): None   (app.py:109-113)
ParsePrice(price) ==
    CASE price.t = "num" -> Num(price.n)
      [] price.t = "str" ->
            IF price.s # <<>> /\ \A k \in 1..Len(price.s) : IsDigit(price.s[k])
            THEN Num(DecimalValue(price.s, 0))
            ELSE None
      [] OTHER -> None

\* The raw title and body the branch of type st reads.
RawTitle(item) == Get(item, "title", Empty)
RawBody(item, st) ==
    CASE Branch(st) = "shopping" ->
            Get(item, "description", Get(item, "category3", Empty))
      [] Branch(st) = "generic" ->
            Get(item, "description", Get(item, "content", Empty))
      [] OTHER -> Get(item, "description", Empty)

\* Whether normalizing item raises: item.get on a value that is no mapping
\* (AttributeError) or re.sub on a value that is no str (TypeError).
NormalizeRaises(item, st) ==
    \/ ~item.isdict
    \/ CleanRaises(RawTitle(item))
    \/ CleanRaises(RawBody(item, st))

\* full_content = title + " " + content
FullContent(item, st) ==
    clean_html_tags(RawTitle(item)) \o <<" ">> \o clean_html_tags(RawBody(item, st))

\* The collection label of the generic branch (app.py:150).
GenericCollection(st) == IF st # NoType THEN Label(st) ELSE Label("general")

\* metadata of the item under type st.
Metadata(item, st) ==
    LET title == Str(clean_html_tags(RawTitle(item))) IN
    CASE Branch(st) = "blog" ->
            Meta([title |-> title, collection |-> Label(st), collected_at |-> Now,
                  url |-> Get(item, "link", Empty),
                  date |-> Get(item, "postdate", Empty),
                  bloggername |-> Get(item, "bloggername", Empty),
                  bloggerlink |-> Get(item, "bloggerlink", Empty)])
      [] Branch(st) = "shopping" ->
            Meta([title |-> title, collection |-> Label(st), collected_at |-> Now,
                  url |-> Get(item, "link", Empty),
                  price |-> ParsePrice(Get(item, "lprice", Empty)),
                  maker |-> Get(item, "maker", Empty),
                  brand |-> Get(item, "brand", Empty),
                  mallName |-> Get(item, "mallName", Empty),
                  productId |-> Get(item, "productId", Empty),
                  productType |-> Get(item, "productType", Empty)])
      [] Branch(st) = "news" ->
            Meta([title |-> title, collection |-> Label(st), collected_at |-> Now,
                  url |-> Get(item, "link", Get(item, "originallink", Empty)),
                  date |-> Get(item, "pubDate", Empty),
                  publisher |-> Get(item, "publisher", Empty)])
      [] OTHER ->
            LET base == Meta([title |-> title, collection |-> GenericCollection(st),
                              collected_at |-> Now])
            IN IF Has(item, "link") THEN [base EXCEPT !["url"] = item.f["link"]]
               ELSE base

\* generate_embedding (app.py:23-29): the vector is opaque, it only records
\* the text it was computed from.
generate_embedding(text) == [of |-> text]
NoEmbedding == [of |-> <<>>]

\* The row inserted for the current item (app.py:162-166).
Record(content, emb, md) == [content |-> content, embedding |-> emb, metadata |-> md]

-----------------------------------------------------------------------------
\* Inputs of a run: the uploaded file and the two form fields.

BlogItem == Dict([title |-> Str(<<"<", "b", ">", "A", "<", "/", "b", ">">>),
                  description |-> Str(<<"d", "1">>),
                  bloggername |-> Str(<<"b", "n">>)])
ShopItem == Dict([title |-> Str(<<"t">>), lprice |-> Str(<<"5", "0", "0">>),
                  maker |-> Str(<<"m">>)])
NewsItem == Dict([title |-> Str(<<"n">>), description |-> Str(<<"<", "i", ">", "x">>),
                  pubDate |-> Str(<<"p">>), originallink |-> Str(<<"o">>)])
LinkItem == Dict([title |-> Str(<<"g">>), content |-> Str(<<"c">>),
                  link |-> Str(<<"u">>)])
\* An item whose title is a number instead of a text.
NumTitleItem == Dict([title |-> Num(5), description |-> Str(<<"d">>)])

ItemPool == {BlogItem, ShopItem, NewsItem, LinkItem, EmptyDict, NumTitleItem}
Batches == UNION {[1..n -> ItemPool] : n \in 0..MaxItems}

\* Top-level values of the uploaded file; "invalid" is a file json.load rejects.
MainInputs ==
    {DictWithItems(b) : b \in Batches} \cup {Array(b) : b \in Batches}
    \cup {DictNoItems(k) : k \in 0..MaxKeys}
    \cup {Scalar("str", k) : k \in 0..1}
    \cup {Scalar("num", 0), Scalar("null", 0), Scalar("invalid", 0)}

\* The radio (app.py:185-192) and the text input (app.py:195).
TypeChoices == {NoType, "blog", "shopping", "news"}
CollChoices == {"", "mycol"}

\* Whether enumerate() accepts the value bound to items (app.py:86).
Iterable(d) == d.t \in {"dict", "list", "str"}
\* Whether the first branch of app.py:65 is taken.
IsNaverResponse(d) == d.t = "dict" /\ d.hasItems
\* What the for loop enumerates: the elements of a list, the keys of a mapping,
\* the characters of a str.
Elements(d) ==
    IF IsNaverResponse(d) \/ d.t = "list" THEN d.items
    ELSE IF d.t \in {"dict", "str"} THEN [k \in 1..d.n |-> NonDict]
    ELSE <<>>

NoFailure == [op |-> "none", idx |-> 0]
NoUi == [kind |-> "none", reason |-> "", count |-> -1, coll |-> <<>>,
         type |-> "", db |-> ""]

MainIdle ==
    /\ source_type = NoType /\ collection_name = <<>> /\ items = <<>>
    /\ i = 0 /\ doc_count = 0 /\ full_content = <<>> /\ metadata = NoMeta
    /\ embedding = NoEmbedding /\ store = <<>> /\ calls = <<>>
    /\ detect_calls = 0 /\ branches = <<>> /\ failed = NoFailure
    /\ ui = NoUi /\ tmp_file = TRUE
CleanIdle == cl_text = None /\ cl_once = <<>> /\ cl_twice = <<>> /\ cl_pc = "off"
DetectIdle == dt_data = Scalar("null", 0) /\ dt_out = "" /\ dt_pc = "off"

\* The file is uploaded and the form filled in; the button is not clicked yet.
Init ==
    /\ pc = "ready"
    /\ data \in MainInputs
    /\ arg_type \in TypeChoices
    /\ arg_coll \in CollChoices
    /\ MainIdle /\ CleanIdle /\ DetectIdle

-----------------------------------------------------------------------------
\* The save-button handler (app.py:197-222) and process_json_file (app.py:58-171)

\* except Exception as e: st.error(str(e)); finally: os.unlink (app.py:218-222).
\* The message holds str(e) and nothing else.
Except(reason) ==
    /\ ui' = [NoUi EXCEPT !.kind = "error", !.reason = reason]
    /\ tmp_file' = FALSE
    /\ pc' = "done"

\* The click: json.load, the choice of items and of the type, the collection
\* name, doc_count = 0 (app.py:60-83).
Start ==
    /\ pc = "ready"
    /\ IF data.t = "invalid"
       THEN /\ Except("json")
            /\ UNCHANGED <<source_type, collection_name, items, detect_calls,
                           doc_count>>
       ELSE LET detect == IsNaverResponse(data) /\ arg_type = NoType
                st == IF detect THEN detect_naver_api_type(data) ELSE arg_type
            IN /\ items' = Elements(data)
               /\ source_type' = st
               /\ detect_calls' = IF detect THEN detect_calls + 1 ELSE detect_calls
               /\ collection_name' = IF arg_coll # "" THEN <<arg_coll>>
                                     ELSE <<st, "_", "now">>
               /\ doc_count' = 0
               /\ pc' = "loop"
               /\ UNCHANGED <<ui, tmp_file>>
    /\ UNCHANGED <<data, arg_type, arg_coll, i, full_content, metadata, embedding,
                   store, calls, branches, failed, cleanVars, detectVars>>

\* enumerate(items) on a value that is not iterable raises TypeError (app.py:86).
IterError ==
    /\ pc = "loop" /\ ~Iterable(data)
    /\ Except("iterate")
    /\ UNCHANGED <<data, arg_type, arg_coll, source_type, collection_name, items, i,
                   doc_count, full_content, metadata, embedding, store, calls,
                   detect_calls, branches, failed, cleanVars, detectVars>>

\* A variant that detects the type of every item anew.
ItemTypeRedetect(item) == detect_naver_api_type(DictWithItems(<<item>>))

\* The type the loop body dispatches on for an item (app.py:88, 103, 128, 142).
ItemType(item) == source_type

\* The loop fetches the next item and normalizes it (app.py:86-156).
Normalize ==
    /\ pc = "loop" /\ Iterable(data) /\ i < Len(items)
    /\ i' = i + 1
    /\ LET item == items[i + 1]
           st == ItemType(item)
       IN IF NormalizeRaises(item, st)
          THEN /\ Except("item")
               /\ UNCHANGED <<full_content, metadata, branches>>
          ELSE /\ full_content' = FullContent(item, st)
               /\ metadata' = Metadata(item, st)
               /\ branches' = Append(branches, Branch(st))
               /\ pc' = "embed"
               /\ UNCHANGED <<ui, tmp_file>>
    /\ UNCHANGED <<data, arg_type, arg_coll, source_type, collection_name, items,
                   doc_count, embedding, store, calls, detect_calls, failed,
                   cleanVars, detectVars>>

\* embedding = generate_embedding(full_content) returns (app.py:159).
EmbedOk ==
    /\ pc = "embed"
    /\ calls' = Append(calls, [op |-> "embed", idx |-> i, text |-> full_content])
    /\ embedding' = generate_embedding(full_content)
    /\ pc' = "insert"
    /\ UNCHANGED <<data, arg_type, arg_coll, source_type, collection_name, items, i,
                   doc_count, full_content, metadata, store, detect_calls, branches,
                   failed, ui, tmp_file, cleanVars, detectVars>>

\* generate_embedding raises: the exception leaves process_json_file.
EmbedRaise ==
    /\ pc = "embed"
    /\ calls' = Append(calls, [op |-> "embed", idx |-> i, text |-> full_content])
    /\ failed' = [op |-> "embed", idx |-> i]
    /\ Except("embed")
    /\ UNCHANGED <<data, arg_type, arg_coll, source_type, collection_name, items, i,
                   doc_count, full_content, metadata, embedding, store, detect_calls,
                   branches, cleanVars, detectVars>>

\* The insert succeeds and the counter is incremented (app.py:162-169).
InsertOk ==
    /\ pc = "insert"
    /\ calls' = Append(calls, [op |-> "insert", idx |-> i, text |-> full_content])
    /\ store' = Append(store, Record(full_content, embedding, metadata))
    /\ doc_count' = doc_count + 1
    /\ pc' = "loop"
    /\ UNCHANGED <<data, arg_type, arg_coll, source_type, collection_name, items, i,
                   full_content, metadata, embedding, detect_calls, branches, failed,
                   ui, tmp_file, cleanVars, detectVars>>

\* A variant in which a failed insert is swallowed and the loop goes on.
InsertRaiseSwallowed ==
    /\ pc = "insert"
    /\ calls' = Append(calls, [op |-> "insert", idx |-> i, text |-> full_content])
    /\ failed' = [op |-> "insert", idx |-> i]
    /\ pc' = "loop"
    /\ UNCHANGED <<data, arg_type, arg_coll, source_type, collection_name, items, i,
                   doc_count, full_content, metadata, embedding, store, detect_calls,
                   branches, ui, tmp_file, cleanVars, detectVars>>

\* A variant that increments the counter before the insert is attempted.
InsertRaiseCounted ==
    /\ pc = "insert"
    /\ calls' = Append(calls, [op |-> "insert", idx |-> i, text |-> full_content])
    /\ failed' = [op |-> "insert", idx |-> i]
    /\ doc_count' = doc_count + 1
    /\ Except("insert")
    /\ UNCHANGED <<data, arg_type, arg_coll, source_type, collection_name, items, i,
                   full_content, metadata, embedding, store, detect_calls, branches,
                   cleanVars, detectVars>>

\* insert(...).execute() raises: nothing is stored, the exception leaves
\* process_json_file (app.py:168).
InsertRaise ==
    /\ pc = "insert"
    /\ calls' = Append(calls, [op |-> "insert", idx |-> i, text |-> full_content])
    /\ failed' = [op |-> "insert", idx |-> i]
    /\ Except("insert")
    /\ UNCHANGED <<data, arg_type, arg_coll, source_type, collection_name, items, i,
                   doc_count, full_content, metadata, embedding, store, detect_calls,
                   branches, cleanVars, detectVars>>

\* The loop is exhausted: return (app.py:171), st.success and the table count
\* or the warning when that query raises (app.py:206-216), then the unlink.
Return ==
    /\ pc = "loop" /\ Iterable(data) /\ i = Len(items)
    /\ \E db \in {"count", "warning"} :
          ui' = [kind |-> "success", reason |-> "", count |-> doc_count,
                 coll |-> collection_name, type |-> source_type, db |-> db]
    /\ tmp_file' = FALSE
    /\ pc' = "done"
    /\ UNCHANGED <<data, arg_type, arg_coll, source_type, collection_name, items, i,
                   doc_count, full_content, metadata, embedding, store, calls,
                   detect_calls, branches, failed, cleanVars, detectVars>>

Next == Start \/ IterError \/ Normalize \/ EmbedOk \/ EmbedRaise \/ InsertOk
        \/ InsertRaise \/ Return

Spec == Init /\ [][Next]_vars

-----------------------------------------------------------------------------
\* clean_html_tags applied to a text, and again to its result.

Alphabet == {"<", ">", "x", "\n"}
Texts == UNION {[1..n -> Alphabet] : n \in 0..MaxLen}
BoldX == <<"<", "b", ">", "x", "<", "/", "b", ">">>
CleanInputs == {None} \cup {Str(t) : t \in Texts} \cup {Str(BoldX)}

MainOff ==
    /\ pc = "off" /\ data = Scalar("null", 0) /\ arg_type = NoType /\ arg_coll = ""
    /\ MainIdle

InitClean ==
    /\ MainOff /\ DetectIdle
    /\ cl_text \in CleanInputs
    /\ cl_once = <<>> /\ cl_twice = <<>> /\ cl_pc = "in"

CleanOnce ==
    /\ cl_pc = "in"
    /\ cl_once' = clean_html_tags(cl_text)
    /\ cl_pc' = "once"
    /\ UNCHANGED <<cl_text, cl_twice, mainVars, detectVars>>

CleanTwice ==
    /\ cl_pc = "once"
    /\ cl_twice' = clean_html_tags(Str(cl_once))
    /\ cl_pc' = "twice"
    /\ UNCHANGED <<cl_text, cl_once, mainVars, detectVars>>

NextClean == CleanOnce \/ CleanTwice

SpecClean == InitClean /\ [][NextClean]_vars

-----------------------------------------------------------------------------
\* detect_naver_api_type applied to a parsed value.

DetectKeys == {"bloggername", "productType", "maker", "mallName", "pubDate",
               "articleId", "originallink"}
ItemWithKeys(K) ==
    [isdict |-> TRUE, f |-> [k \in Fields |-> IF k \in K THEN Str(<<"v">>) ELSE Absent]]
DetectItems == {ItemWithKeys(K) : K \in SUBSET DetectKeys}
DetectInputs ==
    {DictWithItems(<<a>>) : a \in DetectItems}
    \cup {DictWithItems(<<a, b>>) : a \in DetectItems, b \in {BlogItem, ShopItem, NewsItem}}
    \cup {Array(<<a>>) : a \in DetectItems}
    \cup {DictWithItems(<<>>), Array(<<>>)}
    \cup {DictNoItems(k) : k \in 0..MaxKeys}
    \cup {Scalar("str", 1), Scalar("num", 0), Scalar("null", 0)}

InitDetect ==
    /\ MainOff /\ CleanIdle
    /\ dt_data \in DetectInputs
    /\ dt_out = "" /\ dt_pc = "in"

Detect ==
    /\ dt_pc = "in"
    /\ dt_out' = detect_naver_api_type(dt_data)
    /\ dt_pc' = "done"
    /\ UNCHANGED <<dt_data, mainVars, cleanVars>>

NextDetect == Detect

SpecDetect == InitDetect /\ [][NextDetect]_vars

-----------------------------------------------------------------------------
\* Properties

\* Number of calls of a collaborator made so far.
CallCount(op) == Cardinality({k \in 1..Len(calls) : calls[k].op = op})
\* The row the program is to store for item j of the batch.
ExpectedRecord(j) ==
    Record(FullContent(items[j], source_type),
           generate_embedding(FullContent(items[j], source_type)),
           Metadata(items[j], source_type))
\* The top-level shapes the program supports.
Supported(d) == IsNaverResponse(d) \/ d.t = "list"

\* C1: when the embed call or the insert of item k raises, the run is over with
\* the error shown, the failed call is the last call made (no embed and no
\* insert for a later item), and the rows of the k-1 items before it are still
\* in the store, in order.
C1_AbortOnFailure ==
    failed.op # "none" =>
        /\ pc = "done"
        /\ ui.kind = "error" /\ ui.reason = failed.op
        /\ calls # <<>>
        /\ calls[Len(calls)].op = failed.op /\ calls[Len(calls)].idx = failed.idx
        /\ \A k \in 1..Len(calls) : calls[k].idx <= failed.idx
        /\ CallCount("embed") = failed.idx
        /\ CallCount("insert") = IF failed.op = "insert" THEN failed.idx
                                 ELSE failed.idx - 1
        /\ Len(store) = failed.idx - 1
        /\ \A j \in 1..Len(store) : store[j] = ExpectedRecord(j)

\* Three items, the insert of the second raises: one row stored, item 3 untouched.
C1_Witness ==
    /\ Len(items) = 3
    /\ failed = [op |-> "insert", idx |-> 2]
    /\ Len(store) = 1
    /\ CallCount("embed") = 2

\* C2: when a collaborator call aborts the batch, the page shows the reason of
\* the failure and the number of documents processed before the abort.
C2_CountReported ==
    failed.op # "none" =>
        /\ ui.kind = "error"
        /\ ui.reason = failed.op
        /\ ui.count = doc_count

\* What the claim C3 says detection returns, from the first item only.
ClaimedType(d) ==
    IF d.t # "dict" THEN "unknown"
    ELSE IF ~d.hasItems THEN "unknown"
    ELSE IF Len(d.items) = 0 THEN "unknown"
    ELSE LET first == d.items[1]
             blog == Has(first, "bloggername")
             shop == \E k \in {"productType", "maker", "mallName"} : Has(first, k)
             news == Has(first, "pubDate")
                     /\ (Has(first, "articleId") \/ Has(first, "originallink"))
         IN CASE blog -> "blog"
              [] ~blog /\ shop -> "shopping"
              [] ~blog /\ ~shop /\ news -> "news"
              [] OTHER -> "unknown"

\* C3: detect_naver_api_type returns unknown for a value that is no mapping,
\* has no 'items' or has empty 'items'; otherwise it decides on the first item
\* alone: blog, else shopping, else news, else unknown, in that order.
C3_DetectOrder == dt_pc = "done" => dt_out = ClaimedType(dt_data)

\* A first item with a blog field and a shopping field is detected as blog.
C3_Witness ==
    /\ dt_pc = "done"
    /\ IsNaverResponse(dt_data) /\ dt_data.items # <<>>
    /\ Has(dt_data.items[1], "bloggername") /\ Has(dt_data.items[1], "maker")
    /\ dt_out = "blog"

\* The value with only the first element of its items.
FirstOnly(d) == [d EXCEPT !.items = SubSeq(d.items, 1, IF Len(d.items) > 0 THEN 1 ELSE 0)]

\* C4: once the batch has started its type is fixed: the caller's type when one
\* is given (detection is never run), otherwise what detection says of the
\* first item (run at most once); every item is normalized by the branch of
\* that one type.
C4_TypeFixedPerBatch ==
    (pc \in {"loop", "embed", "insert", "done"} /\ data.t # "invalid") =>
        /\ arg_type # NoType => (detect_calls = 0 /\ source_type = arg_type)
        /\ arg_type = NoType =>
              /\ detect_calls <= 1
              /\ IsNaverResponse(data) =>
                    source_type = detect_naver_api_type(FirstOnly(data))
              /\ Branch(source_type) = Branch(detect_naver_api_type(FirstOnly(data)))
        /\ \A j \in 1..Len(branches) : branches[j] = Branch(source_type)
        /\ \A j \in 1..Len(store) : store[j].metadata = Metadata(items[j], source_type)

\* A bare array of two items that start with a blog item, saved as news.
C4_Witness ==
    /\ pc = "done" /\ ui.kind = "success"
    /\ data.t = "list" /\ arg_type = "news"
    /\ Len(items) = 2 /\ items[1] = BlogItem /\ items[2] = ShopItem
    /\ branches = <<"news", "news">>
    /\ detect_calls = 0

\* C5: a top-level value that is neither a mapping with 'items' nor an array
\* ends in an error, with no embed, no insert and no success shown.
C5_UnsupportedRejected ==
    (pc = "done" /\ data.t # "invalid" /\ ~Supported(data)) =>
        /\ ui.kind = "error"
        /\ calls = <<>> /\ store = <<>>

\* C6: normalizing an item that is a mapping never raises, whatever its fields hold.
C6_NormalizeNeverRaises ==
    ~(ui.kind = "error" /\ ui.reason = "item" /\ i >= 1 /\ items[i].isdict)

\* C7: a batch in which no collaborator call raises ends with one embed then
\* one insert per item, in input order, and as many rows and as high a count
\* as there are items.
C7_AllItemsInOrder ==
    (pc = "done" /\ Supported(data) /\ failed.op = "none") =>
        /\ ui.kind = "success"
        /\ ui.count = Len(items) /\ Len(store) = Len(items)
        /\ Len(calls) = 2 * Len(items)
        /\ \A j \in 1..Len(items) :
              /\ calls[2 * j - 1].op = "embed" /\ calls[2 * j - 1].idx = j
              /\ calls[2 * j].op = "insert" /\ calls[2 * j].idx = j
              /\ store[j].content = FullContent(items[j], source_type)

\* The keys a metadata mapping holds.
KeysOf(md) == {k \in MetaKeys : md[k].t # "absent"}

\* C8: a row normalized by the generic branch carries the caller's collection
\* label, or "general" when none was given, and holds title, collection and
\* timestamp, plus url exactly when the item has 'link'.
C8_GenericCollectionLabel ==
    \A j \in 1..Len(store) :
        branches[j] = "generic" =>
            /\ store[j].metadata["collection"] =
                  (IF arg_coll # "" THEN Label(arg_coll) ELSE Label("general"))
            /\ KeysOf(store[j].metadata) =
                  {"title", "collection", "collected_at"}
                  \cup (IF Has(items[j], "link") THEN {"url"} ELSE {})

\* C9: cleaning a cleaned text changes nothing; "<b>x</b>" cleans to "x"; the
\* empty text and None clean to the empty text.
C9_CleanIdempotent ==
    /\ cl_pc = "twice" => cl_twice = cl_once
    /\ (cl_pc \in {"once", "twice"} /\ cl_text = Str(BoldX)) => cl_once = <<"x">>
    /\ (cl_pc \in {"once", "twice"} /\ cl_text \in {None, Str(<<>>)}) => cl_once = <<>>

\* A text with a tag inside a tag, cleaned twice.
C9_Witness ==
    /\ cl_pc = "twice"
    /\ cl_text = Str(<<"<", "<", "x", ">", ">">>)
    /\ cl_once = <<">">>

\* C10: in every state of the loop doc_count is the number of rows stored, the
\* rows are those of the first doc_count items in input order, and the number
\* of embed calls is doc_count or doc_count + 1.
C10_CounterMatchesStore ==
    pc \in {"loop", "embed", "insert", "done"} =>
        /\ doc_count = Len(store)
        /\ doc_count <= Len(items)
        /\ \A j \in 1..doc_count : store[j] = ExpectedRecord(j)
        /\ CallCount("embed") \in {doc_count, doc_count + 1}

\* The second item is embedded and not yet inserted.
C10_Witness ==
    /\ pc = "insert"
    /\ doc_count = 1 /\ Len(store) = 1
    /\ CallCount("embed") = 2

====
